---- MODULE Spec2Model ----
(***************************************************************************)
(* The frontend API of the agent hub (src/src/frontend/api.rs): the        *)
(* routing table built by add_routing and the nine handlers behind it,     *)
(* run by worker threads against the agent-service and DB collaborators.   *)
(***************************************************************************)
EXTENDS Integers, Sequences, FiniteSets, TLC

(* ------------------------------ bounds -------------------------------- *)

\* Requests dispatched in one behaviour of Spec, where they overlap.
MaxRequests == 2
\* Requests dispatched in one behaviour of SpecSeq, where they do not.
MaxSeqRequests == 3
\* Largest explicit itemPerPage a log_get request carries.
MaxItemPerPage == 2
\* Largest value a thread's dummy_id counter takes (far below i32::MAX).
MaxDummyId == 200
\* SpecLog: the largest explicit itemPerPage, and the requests in one behaviour.
MaxLogItemPerPage == 10
MaxLogRequests == 2
\* SpecRace: the requests in one behaviour.
MaxRaceRequests == 2

(* ------------------------- program constants -------------------------- *)

\* api.rs:129  req.item_per_page.unwrap_or(100)
DefaultItemPerPage == 100
\* api.rs:136  RefCell::new(0)
InitialDummyId == 0

(* ------------------------------ values -------------------------------- *)

\* Worker threads serving requests (each owns one thread-local dummy_id).
Threads == {"t1", "t2"}

\* Node names a request may carry.
NodeNames == {"n1", "n2"}

\* Option<T>: None is the empty sequence, Some(v) the one-element sequence.
None == <<>>
Some(v) == <<v>>
IsSome(o) == o # None
Unwrap(o) == o[1]

\* ShellStartCodeChainRequest values a node_start request may carry.
StartRequests ==
    { [env |-> "E1", args |-> "A1", target |-> "T"],
      [env |-> "E2", args |-> "A2", target |-> "T"] }
NoStartRequest == [env |-> "", args |-> "", target |-> ""]

CommitHashes == {"H1"}

\* LogGetRequest.item_per_page: absent, or an explicit count.
ItemPerPageValues == {None} \cup { Some(i) : i \in 0..MaxItemPerPage }

\* What an agent answers to a command.
LogTexts == {"log-a", "log-b"}
Causes == {"cause"}

\* The method names clients send: those of the catalogue and one that is not.
Catalogue ==
    { "ping", "node_getInfo", "dashboard_getNetwork", "node_start", "node_stop",
      "node_update", "shell_getCodeChainLog", "log_getTypes", "log_get" }
UnknownMethods == {"node_restart"}

\* Mutant: the node_update route is registered under the name of node_stop.
AddRoutingCalls_RepeatsName ==
    << <<"ping", "ping">>,
       <<"node_getInfo", "node_get_info">>,
       <<"dashboard_getNetwork", "dashboard_get_network">>,
       <<"node_start", "node_start">>,
       <<"node_stop", "node_stop">>,
       <<"node_stop", "node_update">>,
       <<"shell_getCodeChainLog", "shell_get_codechain_log">>,
       <<"log_getTypes", "log_get_types">>,
       <<"log_get", "log_get">> >>

\* api.rs:16-38: the add_route calls of add_routing, in order, as
\* <<method name, handler>>.
AddRoutingCalls ==
    << <<"ping", "ping">>,
       <<"node_getInfo", "node_get_info">>,
       <<"dashboard_getNetwork", "dashboard_get_network">>,
       <<"node_start", "node_start">>,
       <<"node_stop", "node_stop">>,
       <<"node_update", "node_update">>,
       <<"shell_getCodeChainLog", "shell_get_codechain_log">>,
       <<"log_getTypes", "log_get_types">>,
       <<"log_get", "log_get">> >>


(* ------------------------------- state -------------------------------- *)

VARIABLES
    routes,        \* Router<Context>: method name -> handler, as add_route built it
    setupPc,       \* add_routing: index of its next add_route call
    setupFailed,   \* an add_route call was rejected (the name was registered)
    live,          \* agent-service: the names get_agent resolves to an agent
    db,            \* DB: the agent states and the connections it holds
    dbExtra,       \* DB: get_agent_extra, name -> Option<AgentExtra>
    th,            \* per worker thread: the request it serves and how far it got
    dummy_id,      \* thread_local dummy_id, one per thread
    served,        \* requests dispatched so far
    lastStart,     \* history: per node, the request of its latest node_start that returned ok
    pre,           \* history (SpecSeq): dbExtra when the latest request was dispatched
    accepted,      \* history (SpecRace): per node, the start request its agent accepted last
    ticket,        \* history (SpecRace): per thread, the dispatch number of its request
    inbox,         \* history (SpecRace): per node, the tickets of the commands sent to
                   \* its agent, in the order of the calls
    known          \* history (SpecRace): per thread, accepted when its request was dispatched

vars ==
    << routes, setupPc, setupFailed, live, db, dbExtra, th,
       dummy_id, served, lastStart, pre, accepted, ticket, inbox, known >>

collaborators == << live, db >>
router == << routes, setupPc, setupFailed >>
history == << lastStart, pre >>
race == << accepted, ticket, inbox, known >>

\* RPCResponse<T>: Ok(value) or Err(RPCError); the value is kept as an Option
\* so that responses of one method always compare.
response(v) == [status |-> "ok", value |-> Some(v), cause |-> ""]
RPCError(kind, cause) == [status |-> kind, value |-> None, cause |-> cause]
NoResponse == [status |-> "", value |-> None, cause |-> ""]

\* Parameters as the wire request carries them (unused positions are blank).
NoParams == [name |-> "", req |-> NoStartRequest, commit_hash |-> "", item_per_page |-> None]

ParamsFor(m) ==
    CASE m \in {"node_getInfo", "node_stop", "shell_getCodeChainLog"} ->
            { [NoParams EXCEPT !.name = n] : n \in NodeNames }
      [] m = "node_start" ->
            { [NoParams EXCEPT !.name = n, !.req = r] : n \in NodeNames, r \in StartRequests }
      [] m = "node_update" ->
            { [NoParams EXCEPT !.name = n, !.commit_hash = h] : n \in NodeNames, h \in CommitHashes }
      [] m = "log_get" ->
            { [NoParams EXCEPT !.item_per_page = i] : i \in ItemPerPageValues }
      [] OTHER -> {NoParams}

\* A worker thread with no request.
IdleThread ==
    [ pc |-> "idle", method |-> "", handler |-> "", params |-> NoParams,
      agent |-> None,      \* the agent get_agent resolved
      sent |-> <<>>,       \* the remote commands this request sent, in order
      reply |-> None,      \* the agent's answer to the command in flight
      saves |-> <<>>,      \* the save_start_option calls this request made
      resp |-> NoResponse ]

\* DB contents: no agent state; one; or two (listed as the DB holds them, not
\* by name) and a connection between them.
DBStates ==
    { [agents |-> <<>>, connections |-> <<>>],
      [agents |-> <<"n1">>, connections |-> <<>>],
      [agents |-> <<"n2", "n1">>, connections |-> << <<"n2", "n1">> >>] }

Init ==
    /\ routes = <<>>
    /\ setupPc = 1
    /\ setupFailed = FALSE
    /\ live \in SUBSET NodeNames
    /\ db \in DBStates
    /\ dbExtra = [n \in NodeNames |-> None]
    /\ th = [t \in Threads |-> IdleThread]
    /\ dummy_id = [t \in Threads |-> InitialDummyId]
    /\ served = 0
    /\ lastStart = [n \in NodeNames |-> None]
    /\ pre = None
    /\ accepted = [n \in NodeNames |-> None]
    /\ ticket = [t \in Threads |-> 0]
    /\ inbox = [n \in NodeNames |-> <<>>]
    /\ known = [t \in Threads |-> [n \in NodeNames |-> None]]

(* ------------------------------ router -------------------------------- *)

\* Router::add_route: a name already in the table is rejected, never
\* overwritten.
add_route(table, name, handler) ==
    IF name \in DOMAIN table
        THEN [ok |-> FALSE, table |-> table]
        ELSE [ok |-> TRUE,
              table |-> [m \in DOMAIN table \cup {name} |->
                            IF m = name THEN handler ELSE table[m]]]

\* api.rs:16-38, one add_route call per step.
add_routing ==
    /\ ~setupFailed
    /\ setupPc <= Len(AddRoutingCalls)
    /\ LET call == AddRoutingCalls[setupPc]
           r == add_route(routes, call[1], call[2])
       IN  /\ routes' = r.table
           /\ setupFailed' = ~r.ok
           /\ setupPc' = setupPc + 1
    /\ UNCHANGED << live, db, dbExtra, th, dummy_id, served, history >>

SetupDone == ~setupFailed /\ setupPc > Len(AddRoutingCalls)

Free(t) == th[t].pc = "idle"

\* Router dispatch: an unknown name yields MethodNotFound and runs nothing;
\* a known one hands the request to its handler with a fresh Context.
dispatch(t, m, p) ==
    /\ SetupDone
    /\ Free(t)
    /\ served' = served + 1
    /\ th' = [th EXCEPT ![t] =
                IF m \in DOMAIN routes
                    THEN [IdleThread EXCEPT !.pc = "run", !.method = m,
                              !.handler = routes[m], !.params = p]
                    ELSE [IdleThread EXCEPT !.pc = "done", !.method = m,
                              !.params = p,
                              !.resp = RPCError("MethodNotFound", "")]]
    /\ UNCHANGED << router, collaborators, dbExtra, dummy_id, lastStart >>

\* The response envelope leaves; the thread is free for the next request.
respond(t) ==
    /\ th[t].pc = "done"
    /\ th' = [th EXCEPT ![t] = IdleThread]
    /\ UNCHANGED << router, collaborators, dbExtra, dummy_id, served, history >>

Running(t, h) == th[t].pc = "run" /\ th[t].handler = h


Finish(t, r) == [th EXCEPT ![t].pc = "done", ![t].resp = r]

(* ---------------------- handlers without an agent --------------------- *)

\* agent-service get_agent(name)
get_agent(name) == IF name \in live THEN Some(name) ELSE None

\* api.rs:40-42
ping(t) ==
    /\ Running(t, "ping")
    /\ th' = Finish(t, response("pong"))
    /\ UNCHANGED << router, collaborators, dbExtra, dummy_id, served, history >>

\* DashboardNode::from_db_state and NodeConnection::from_connection: the
\* presentation value of one DB element.
DashboardNode(agent) == [node |-> agent]
NodeConnection(connection) == [connection |-> connection]

\* DB get_agents_state() and get_connections()
get_agents_state == db.agents
get_connections == db.connections

\* Mutant: the nodes are collected in reverse.
dashboard_get_network_Reverses(t) ==
    /\ Running(t, "dashboard_get_network")
    /\ LET agents_state == get_agents_state
           connections == get_connections
           dashboard_nodes ==
               [i \in 1..Len(agents_state) |->
                   DashboardNode(agents_state[Len(agents_state) + 1 - i])]
       IN  th' = Finish(t, response(
                    [nodes |-> dashboard_nodes,
                     connections |-> [i \in 1..Len(connections) |->
                                         NodeConnection(connections[i])]]))
    /\ UNCHANGED << router, collaborators, dbExtra, dummy_id, served, history >>

\* api.rs:44-52
dashboard_get_network(t) ==
    /\ Running(t, "dashboard_get_network")
    /\ LET agents_state == get_agents_state
           connections == get_connections
           dashboard_nodes ==
               [i \in 1..Len(agents_state) |-> DashboardNode(agents_state[i])]
       IN  th' = Finish(t, response(
                    [nodes |-> dashboard_nodes,
                     connections |-> [i \in 1..Len(connections) |->
                                         NodeConnection(connections[i])]]))
    /\ UNCHANGED << router, collaborators, dbExtra, dummy_id, served, history >>

\* DB get_agent_query_result(name)
get_agent_query_result(name) ==
    IF \E i \in 1..Len(db.agents) : db.agents[i] = name THEN Some([name |-> name]) ELSE None

\* DB get_agent_extra(name)
get_agent_extra(name) == dbExtra[name]

\* Mutant: the name is looked up in the agent-service, not in the DB.
node_get_info_AsksAgentService(t) ==
    /\ Running(t, "node_get_info")
    /\ LET name == th[t].params.name
           agent == get_agent(name)
           extra == get_agent_extra(name)
       IN  th' = Finish(t,
                    IF agent = None
                        THEN RPCError("AgentNotFound", "")
                        ELSE response([query |-> [name |-> name], extra |-> extra]))
    /\ UNCHANGED << router, collaborators, dbExtra, dummy_id, served, history >>

\* api.rs:54-59
node_get_info(t) ==
    /\ Running(t, "node_get_info")
    /\ LET name == th[t].params.name
           agent_query_result == get_agent_query_result(name)
           extra == get_agent_extra(name)
       IN  th' = Finish(t,
                    IF agent_query_result = None
                        THEN RPCError("AgentNotFound", "")
                        ELSE response([query |-> Unwrap(agent_query_result),
                                       extra |-> extra]))
    /\ UNCHANGED << router, collaborators, dbExtra, dummy_id, served, history >>

\* Mutant: the list in another order.
LogTypes_Reordered == <<"engine", "miner", "tendermint">>

\* api.rs:123
LogTypes == <<"miner", "tendermint", "engine">>

\* api.rs:121-125
log_get_types(t) ==
    /\ Running(t, "log_get_types")
    /\ th' = Finish(t, response([types |-> LogTypes]))
    /\ UNCHANGED << router, collaborators, dbExtra, dummy_id, served, history >>

\* format!("{}", i) of a non-negative i32: its decimal digits.
Digit == <<"0", "1", "2", "3", "4", "5", "6", "7", "8", "9">>
RECURSIVE Format(_)
Format(i) == IF i < 10 THEN <<Digit[i + 1]>> ELSE Format(i \div 10) \o <<Digit[(i % 10) + 1]>>

\* Mutant: the id is read before the counter is incremented.
create_dummy_log_ReadsFirst(id) == [dummy_id |-> id + 1, log |-> [id |-> Format(id)]]

\* api.rs:138-151: the counter is incremented, then read into the entry's id.
\* The fields drawn from rand and the clock hold no state and are left out.
create_dummy_log(id) == [dummy_id |-> id + 1, log |-> [id |-> Format(id + 1)]]

\* Mutant: the range includes its upper end (1..=n).
Range_Inclusive(from, to) == [i \in 1..(to - from + 1) |-> from + i - 1]

\* The half-open range 1..n of api.rs:130: 1, 2, .., n - 1 (empty for n <= 1).
Range(from, to) == [i \in 1..(to - from) |-> from + i - 1]

\* api.rs:130  (1..item_per_page).map(|_| create_dummy_log()).collect():
\* the k-th call finds the counter k - 1 above where the request found it.
Collect(range, id) ==
    [dummy_id |-> id + Len(range),
     logs |-> [k \in 1..Len(range) |-> create_dummy_log(id + k - 1).log]]

\* api.rs:129
ItemPerPage(req) == IF IsSome(req) THEN Unwrap(req) ELSE DefaultItemPerPage

\* Mutant: one counter for all threads.
log_get_SharedCounter(t) ==
    /\ Running(t, "log_get")
    /\ LET item_per_page == ItemPerPage(th[t].params.item_per_page)
           made == Collect(Range(1, item_per_page), dummy_id[t])
       IN  /\ made.dummy_id <= MaxDummyId
           /\ dummy_id' = [u \in Threads |-> made.dummy_id]
           /\ th' = Finish(t, response([logs |-> made.logs]))
    /\ UNCHANGED << router, collaborators, dbExtra, served, history >>

\* api.rs:127-134
log_get(t) ==
    /\ Running(t, "log_get")
    /\ LET item_per_page == ItemPerPage(th[t].params.item_per_page)
           made == Collect(Range(1, item_per_page), dummy_id[t])
       IN  /\ made.dummy_id <= MaxDummyId
           /\ dummy_id' = [dummy_id EXCEPT ![t] = made.dummy_id]
           /\ th' = Finish(t, response([logs |-> made.logs]))
    /\ UNCHANGED << router, collaborators, dbExtra, served, history >>


(* ------------------------ handlers with an agent ---------------------- *)

\* The commands of SendAgentRPC, as the agent receives them.
StartCommand(req) ==
    [kind |-> "start", env |-> req.env, args |-> req.args, target |-> req.target,
     commit_hash |-> ""]
StopCommand == [kind |-> "stop", env |-> "", args |-> "", target |-> "", commit_hash |-> ""]
GetLogCommand == [kind |-> "get-log", env |-> "", args |-> "", target |-> "", commit_hash |-> ""]

\* Mutant: prev_args is sent as env and prev_env as args.
UpdateCommand_SwapsEnvArgs(extra, commit_hash) ==
    [kind |-> "update",
     env |-> IF IsSome(extra) THEN Unwrap(extra).prev_args ELSE "",
     args |-> IF IsSome(extra) THEN Unwrap(extra).prev_env ELSE "",
     target |-> "",
     commit_hash |-> commit_hash]

\* api.rs:99-103  ShellUpdateCodeChainRequest built from the stored extra.
UpdateCommand(extra, commit_hash) ==
    [kind |-> "update",
     env |-> IF IsSome(extra) THEN Unwrap(extra).prev_env ELSE "",
     args |-> IF IsSome(extra) THEN Unwrap(extra).prev_args ELSE "",
     target |-> "",
     commit_hash |-> commit_hash]

\* DB save_start_option(name, env, args): the node's StartOption becomes
\* {env, args}.
save_start_option(extras, name, env, args) ==
    [extras EXCEPT ![name] = Some([prev_env |-> env, prev_args |-> args])]

\* Mutant: a call waits while another command is in flight at the agent.
Call_Exclusive(t, agent, command) ==
    IF agent = None
        THEN Finish(t, RPCError("AgentNotFound", ""))
        ELSE IF \E u \in Threads \ {t} : th[u].pc = "wait" /\ th[u].agent = agent
                 THEN th
                 ELSE [th EXCEPT ![t].pc = "wait", ![t].agent = agent,
                                 ![t].sent = Append(@, command)]

\* Mutant: the command is sent before the agent is checked.
Call_SendsUnchecked(t, agent, command) ==
    IF agent = None
        THEN [Finish(t, RPCError("AgentNotFound", "")) EXCEPT
                 ![t].sent = Append(@, command)]
        ELSE [th EXCEPT ![t].pc = "wait", ![t].agent = agent,
                        ![t].sent = Append(@, command)]

\* `if agent.is_none() { return Err(RPCError::AgentNotFound) }`, else the call
\* on the agent: the command leaves and the thread blocks on the answer.
Call(t, agent, command) ==
    IF agent = None
        THEN Finish(t, RPCError("AgentNotFound", ""))
        ELSE [th EXCEPT ![t].pc = "wait", ![t].agent = agent,
                        ![t].sent = Append(@, command)]

\* What an agent may answer: success (with the log text for get-log), or a
\* failure with its cause.
Replies(command) ==
    { [ok |-> FALSE, text |-> "", cause |-> c] : c \in Causes }
      \cup (IF command.kind = "get-log"
                THEN { [ok |-> TRUE, text |-> x, cause |-> ""] : x \in LogTexts }
                ELSE { [ok |-> TRUE, text |-> "", cause |-> ""] })

\* The agent (or the transport) answers the command in flight.
agent_reply(t, r) ==
    /\ th[t].pc = "wait"
    /\ r \in Replies(th[t].sent[Len(th[t].sent)])
    /\ th' = [th EXCEPT ![t].pc = "replied", ![t].reply = Some(r)]
    /\ UNCHANGED << router, collaborators, dbExtra, dummy_id, served, history >>

Replied(t, h) == th[t].pc = "replied" /\ th[t].handler = h

\* Mutant: a failed agent call is reported as a missing agent.
AgentError_AsNotFound(r) == RPCError("AgentNotFound", "")

\* The `?` on an agent call's result: the agent's error, as it is.
AgentError(r) == RPCError("AgentError", r.cause)

\* api.rs:62-69  get_agent, then agent.shell_start_codechain(req.clone())
node_start_call(t) ==
    /\ Running(t, "node_start")
    /\ LET name == th[t].params.name
           req == th[t].params.req
           agent == get_agent(name)
       IN  th' = Call(t, agent, StartCommand(req))
    /\ UNCHANGED << router, collaborators, dbExtra, dummy_id, served, history >>

\* Mutant: the start option is saved before the result of the call is looked at.
node_start_return_SavesFirst(t) ==
    /\ Replied(t, "node_start")
    /\ LET name == th[t].params.name
           req == th[t].params.req
           r == Unwrap(th[t].reply)
       IN  /\ dbExtra' = save_start_option(dbExtra, name, req.env, req.args)
           /\ th' = [Finish(t, IF ~r.ok THEN AgentError(r) ELSE response(<<>>)) EXCEPT
                        ![t].saves = Append(@, <<name, req.env, req.args>>)]
           /\ lastStart' = IF r.ok THEN [lastStart EXCEPT ![name] = Some(req)]
                                   ELSE lastStart
    /\ UNCHANGED << router, collaborators, dummy_id, served, pre >>

\* Mutant: env and args change places in the save_start_option call.
node_start_return_SwapsEnvArgs(t) ==
    /\ Replied(t, "node_start")
    /\ LET name == th[t].params.name
           req == th[t].params.req
           r == Unwrap(th[t].reply)
       IN  IF ~r.ok
               THEN /\ th' = Finish(t, AgentError(r))
                    /\ UNCHANGED << dbExtra, lastStart >>
               ELSE /\ dbExtra' = save_start_option(dbExtra, name, req.args, req.env)
                    /\ th' = [Finish(t, response(<<>>)) EXCEPT
                                 ![t].saves = Append(@, <<name, req.args, req.env>>)]
                    /\ lastStart' = [lastStart EXCEPT ![name] = Some(req)]
    /\ UNCHANGED << router, collaborators, dummy_id, served, pre >>

\* api.rs:69-73  `?`, then save_start_option and response(())
node_start_return(t) ==
    /\ Replied(t, "node_start")
    /\ LET name == th[t].params.name
           req == th[t].params.req
           r == Unwrap(th[t].reply)
       IN  IF ~r.ok
               THEN /\ th' = Finish(t, AgentError(r))
                    /\ UNCHANGED << dbExtra, lastStart >>
               ELSE /\ dbExtra' = save_start_option(dbExtra, name, req.env, req.args)
                    /\ th' = [Finish(t, response(<<>>)) EXCEPT
                                 ![t].saves = Append(@, <<name, req.env, req.args>>)]
                    /\ lastStart' = [lastStart EXCEPT ![name] = Some(req)]
    /\ UNCHANGED << router, collaborators, dummy_id, served, pre >>

\* api.rs:77-84  get_agent, then agent.shell_stop_codechain()
node_stop_call(t) ==
    /\ Running(t, "node_stop")
    /\ LET name == th[t].params.name
           agent == get_agent(name)
       IN  th' = Call(t, agent, StopCommand)
    /\ UNCHANGED << router, collaborators, dbExtra, dummy_id, served, history >>

\* Mutant: a failed stop command is sent once more.
node_stop_return_Retries(t) ==
    /\ Replied(t, "node_stop")
    /\ LET r == Unwrap(th[t].reply)
       IN  th' = IF ~r.ok /\ Len(th[t].sent) < 2
                     THEN [th EXCEPT ![t].pc = "wait", ![t].reply = None,
                                     ![t].sent = Append(@, StopCommand)]
                     ELSE Finish(t, IF ~r.ok THEN AgentError(r) ELSE response(<<>>))
    /\ UNCHANGED << router, collaborators, dbExtra, dummy_id, served, history >>

\* api.rs:84-86
node_stop_return(t) ==
    /\ Replied(t, "node_stop")
    /\ LET r == Unwrap(th[t].reply)
       IN  th' = Finish(t, IF ~r.ok THEN AgentError(r) ELSE response(<<>>))
    /\ UNCHANGED << router, collaborators, dbExtra, dummy_id, served, history >>

\* Mutant: a node without a stored StartOption is refused instead of updated
\* with empty env and args.
node_update_call_RefusesMissingOption(t) ==
    /\ Running(t, "node_update")
    /\ LET name == th[t].params.name
           commit_hash == th[t].params.commit_hash
           agent == get_agent(name)
           extra == get_agent_extra(name)
       IN  th' = IF agent # None /\ extra = None
                     THEN Finish(t, RPCError("Internal", "no start option"))
                     ELSE Call(t, agent, UpdateCommand(extra, commit_hash))
    /\ UNCHANGED << router, collaborators, dbExtra, dummy_id, served, history >>

\* api.rs:90-103  get_agent, get_agent_extra, then
\* agent.shell_update_codechain(..)
node_update_call(t) ==
    /\ Running(t, "node_update")
    /\ LET name == th[t].params.name
           commit_hash == th[t].params.commit_hash
           agent == get_agent(name)
           extra == get_agent_extra(name)
       IN  th' = Call(t, agent, UpdateCommand(extra, commit_hash))
    /\ UNCHANGED << router, collaborators, dbExtra, dummy_id, served, history >>

\* Mutant: a successful update saves the env and args it sent.
node_update_return_Saves(t) ==
    /\ Replied(t, "node_update")
    /\ LET r == Unwrap(th[t].reply)
           command == th[t].sent[Len(th[t].sent)]
       IN  /\ th' = Finish(t, IF ~r.ok THEN AgentError(r) ELSE response(<<>>))
           /\ dbExtra' = IF ~r.ok THEN dbExtra
                                  ELSE save_start_option(dbExtra, th[t].params.name,
                                                         command.env, command.args)
    /\ UNCHANGED << router, collaborators, dummy_id, served, history >>

\* api.rs:103-105
node_update_return(t) ==
    /\ Replied(t, "node_update")
    /\ LET r == Unwrap(th[t].reply)
       IN  th' = Finish(t, IF ~r.ok THEN AgentError(r) ELSE response(<<>>))
    /\ UNCHANGED << router, collaborators, dbExtra, dummy_id, served, history >>

\* api.rs:109-116  get_agent, then agent.shell_get_codechain_log()
shell_get_codechain_log_call(t) ==
    /\ Running(t, "shell_get_codechain_log")
    /\ LET name == th[t].params.name
           agent == get_agent(name)
       IN  th' = Call(t, agent, GetLogCommand)
    /\ UNCHANGED << router, collaborators, dbExtra, dummy_id, served, history >>

\* api.rs:116-118
shell_get_codechain_log_return(t) ==
    /\ Replied(t, "shell_get_codechain_log")
    /\ LET result == Unwrap(th[t].reply)
       IN  th' = Finish(t, IF ~result.ok THEN AgentError(result) ELSE response(result.text))
    /\ UNCHANGED << router, collaborators, dbExtra, dummy_id, served, history >>

(* ---------------------------- environment ----------------------------- *)

\* An agent connects to the hub: get_agent resolves its name from now on.
agent_connect(n) ==
    /\ n \notin live
    /\ live' = live \cup {n}
    /\ UNCHANGED << router, db, dbExtra, th, dummy_id, served, history >>

\* An agent's connection ends: get_agent no longer resolves its name.
agent_disconnect(n) ==
    /\ n \in live
    /\ live' = live \ {n}
    /\ UNCHANGED << router, db, dbExtra, th, dummy_id, served, history >>

(* --------------------------- specifications --------------------------- *)

Handle(t) ==
    \/ ping(t) /\ UNCHANGED race
    \/ dashboard_get_network(t) /\ UNCHANGED race
    \/ node_get_info(t) /\ UNCHANGED race
    \/ log_get_types(t) /\ UNCHANGED race
    \/ log_get(t) /\ UNCHANGED race
    \/ node_start_call(t) /\ UNCHANGED race
    \/ node_start_return(t) /\ UNCHANGED race
    \/ node_stop_call(t) /\ UNCHANGED race
    \/ node_stop_return(t) /\ UNCHANGED race
    \/ node_update_call(t) /\ UNCHANGED race
    \/ node_update_return(t) /\ UNCHANGED race
    \/ shell_get_codechain_log_call(t) /\ UNCHANGED race
    \/ shell_get_codechain_log_return(t) /\ UNCHANGED race

Dispatch(t) ==
    \E m \in Catalogue \cup UnknownMethods : \E p \in ParamsFor(m) : dispatch(t, m, p)

AgentReply(t) ==
    \E r \in Replies(StopCommand) \cup Replies(GetLogCommand) : agent_reply(t, r)

Environment ==
    \E n \in NodeNames :
        \/ agent_connect(n) /\ UNCHANGED race
        \/ agent_disconnect(n) /\ UNCHANGED race

\* Worker threads serve requests concurrently.
Next ==
    \/ add_routing /\ UNCHANGED race
    \/ \E t \in Threads :
            served < MaxRequests /\ Dispatch(t) /\ UNCHANGED << pre, race >>
    \/ \E t \in Threads : Handle(t)
    \/ \E t \in Threads : AgentReply(t) /\ UNCHANGED race
    \/ \E t \in Threads : respond(t) /\ UNCHANGED race
    \/ Environment

Spec == Init /\ [][Next]_vars

\* Requests are served one after the other: none is dispatched while another
\* is in progress.
Quiescent == \A t \in Threads : Free(t)

NextSeq ==
    \/ add_routing /\ UNCHANGED race
    \/ \E t \in Threads :
            /\ Quiescent /\ served < MaxSeqRequests /\ Dispatch(t)
            /\ pre' = Some(dbExtra) /\ UNCHANGED race
    \/ \E t \in Threads : Handle(t)
    \/ \E t \in Threads : AgentReply(t) /\ UNCHANGED race
    \/ \E t \in Threads : respond(t) /\ UNCHANGED race
    \/ Environment

SpecSeq == Init /\ [][NextSeq]_vars

\* The log_get requests of SpecLog: itemPerPage absent, 0 .. MaxLogItemPerPage,
\* or the default written out.
LogGetParams ==
    { [NoParams EXCEPT !.item_per_page = i] :
        i \in {None} \cup { Some(n) : n \in 0..MaxLogItemPerPage }
                     \cup {Some(DefaultItemPerPage)} }

\* Only log_get requests, with a wide range of itemPerPage.
NextLog ==
    \/ add_routing /\ UNCHANGED race
    \/ \E t \in Threads : \E p \in LogGetParams :
            /\ served < MaxLogRequests /\ dispatch(t, "log_get", p)
            /\ UNCHANGED << pre, race >>
    \/ \E t \in Threads : log_get(t) /\ UNCHANGED race
    \/ \E t \in Threads : respond(t) /\ UNCHANGED race

SpecLog == Init /\ [][NextLog]_vars

\* The methods whose requests race for one node (spec 5) and their handlers.
RaceMethods == {"node_start", "node_stop", "node_update"}
RaceHandlers == {"node_start", "node_stop", "node_update"}

DispatchRace(t) ==
    \E m \in RaceMethods : \E p \in ParamsFor(m) : dispatch(t, m, p)

\* The step of thread t called its agent (api.rs:69, 84, 103).
Called(t) == th[t].pc = "run" /\ th'[t].pc = "wait"

\* The agent of the call takes the command into its inbox.
Receive(t) ==
    /\ inbox' = IF Called(t)
                    THEN [inbox EXCEPT ![Unwrap(th'[t].agent)] = Append(@, ticket[t])]
                    ELSE inbox
    /\ UNCHANGED << accepted, ticket, known >>

HandleRace(t) ==
    \/ node_start_call(t) /\ Receive(t)
    \/ node_start_return(t) /\ UNCHANGED race
    \/ node_stop_call(t) /\ Receive(t)
    \/ node_stop_return(t) /\ UNCHANGED race
    \/ node_update_call(t) /\ Receive(t)
    \/ node_update_return(t) /\ UNCHANGED race

\* The step of thread t is the agent's ok to a start command.
StartAccepted(t) ==
    /\ th[t].pc = "wait" /\ th'[t].pc = "replied"
    /\ th[t].handler = "node_start"
    /\ Unwrap(th'[t].reply).ok

\* Concurrent node_start, node_stop and node_update requests; the history
\* variables record the order of dispatch, of the calls to each agent and of
\* each agent's accepted start commands.
NextRace ==
    \/ add_routing /\ UNCHANGED race
    \/ \E t \in Threads :
            /\ served < MaxRaceRequests /\ DispatchRace(t)
            /\ ticket' = [ticket EXCEPT ![t] = served']
            /\ known' = [known EXCEPT ![t] = accepted]
            /\ UNCHANGED << pre, accepted, inbox >>
    \/ \E t \in Threads : HandleRace(t)
    \/ \E t \in Threads :
            /\ AgentReply(t)
            /\ accepted' = IF StartAccepted(t)
                               THEN [accepted EXCEPT ![th[t].params.name] =
                                                          Some(th[t].params.req)]
                               ELSE accepted
            /\ UNCHANGED << ticket, inbox, known >>
    \/ \E t \in Threads : respond(t) /\ UNCHANGED race

SpecRace == Init /\ [][NextRace]_vars


(* ------------------------------- claims ------------------------------- *)

AgentHandlers == {"node_start", "node_stop", "node_update", "shell_get_codechain_log"}

\* The StartOption save_start_option(name, env, args) leaves for a request.
StartOptionOf(req) == Some([prev_env |-> req.env, prev_args |-> req.args])

\* C1: when node_start, node_stop, node_update or shell_getCodeChainLog runs
\* for a name that get_agent does not resolve, the handler returns
\* AgentNotFound in that step, no command has been sent, save_start_option has
\* not been called and no StartOption has changed.
C1_Step ==
    \A t \in Threads :
        ( /\ th[t].pc = "run"
          /\ th[t].handler \in AgentHandlers
          /\ get_agent(th[t].params.name) = None
          /\ th'[t] # th[t] )
        => /\ th'[t].pc = "done"
           /\ th'[t].resp = RPCError("AgentNotFound", "")
           /\ th'[t].sent = <<>>
           /\ th'[t].saves = <<>>
           /\ dbExtra' = dbExtra

\* C1: every step of the model is such a step or leaves those handlers alone:
\* an unresolved name always ends in AgentNotFound with nothing sent or saved.
C1_AgentNotFound == [][C1_Step]_vars

C1_Witness ==
    \E t \in Threads :
        /\ th[t].pc = "done"
        /\ th[t].handler = "node_update"
        /\ th[t].resp.status = "AgentNotFound"
        /\ th[t].sent = <<>>
        /\ th[t].params.name \notin live

\* A node_start whose agent was resolved and whose start command failed.
StartFailed(t) ==
    /\ th[t].pc = "done"
    /\ th[t].handler = "node_start"
    /\ IsSome(th[t].reply)
    /\ ~Unwrap(th[t].reply).ok

\* A node_start whose agent was resolved and whose start command succeeded.
StartSucceeded(t) ==
    /\ th[t].pc = "done"
    /\ th[t].handler = "node_start"
    /\ IsSome(th[t].reply)
    /\ Unwrap(th[t].reply).ok

\* C2: with requests served one at a time, a node_start whose remote start
\* command failed has made no save_start_option call, has left the
\* StartOption of every node as it was when the request was dispatched, and
\* has returned an error (AgentError), not ok.
C2_FailedStartSavesNothing ==
    \A t \in Threads :
        StartFailed(t) =>
            /\ th[t].saves = <<>>
            /\ dbExtra = Unwrap(pre)
            /\ th[t].resp.status = "AgentError"

\* A failed start on a node that holds a StartOption of an earlier start.
C2_Witness ==
    \E t \in Threads :
        /\ StartFailed(t)
        /\ IsSome(dbExtra[th[t].params.name])
        /\ dbExtra[th[t].params.name] # StartOptionOf(th[t].params.req)

\* C3: with requests served one at a time, a node_start whose remote start
\* command succeeded has made exactly one save_start_option(name, env, args)
\* call, none before the agent answered; when it returns ok the StartOption of
\* name is the request's env and args and that of every other node is as it
\* was when the request was dispatched.
C3_StartSavesOnce ==
    \A t \in Threads :
        /\ ( th[t].handler = "node_start" /\ th[t].pc \in {"run", "wait", "replied"} )
              => /\ th[t].saves = <<>>
                 /\ dbExtra = Unwrap(pre)
        /\ StartSucceeded(t)
              => LET name == th[t].params.name
                     req == th[t].params.req
                 IN  /\ th[t].saves = << <<name, req.env, req.args>> >>
                     /\ th[t].resp = response(<<>>)
                     /\ dbExtra = [Unwrap(pre) EXCEPT ![name] = StartOptionOf(req)]

\* A successful start that replaced the StartOption of its node while another
\* node holds one.
C3_Witness ==
    \E t \in Threads :
        /\ StartSucceeded(t)
        /\ IsSome(Unwrap(pre)[th[t].params.name])
        /\ Unwrap(pre)[th[t].params.name] # StartOptionOf(th[t].params.req)
        /\ \E n \in NodeNames \ {th[t].params.name} : IsSome(dbExtra[n])


\* A node_update whose update command has left for the agent.
UpdateSent(t) == th[t].handler = "node_update" /\ th[t].sent # <<>>

\* C4: with requests served one at a time, the update command of
\* node_update(n, H) carries the env and args of the latest node_start on n
\* that returned ok, and commit_hash H, whatever was requested in between.
C4_UpdateReplaysLastStart ==
    \A t \in Threads :
        ( UpdateSent(t) /\ IsSome(lastStart[th[t].params.name]) )
        => LET last == Unwrap(lastStart[th[t].params.name])
           IN  th[t].sent =
                 << [kind |-> "update", env |-> last.env, args |-> last.args,
                     target |-> "", commit_hash |-> th[t].params.commit_hash] >>

\* An update of a node started with one request while the other node was
\* started with another.
C4_Witness ==
    \E t \in Threads :
        /\ UpdateSent(t)
        /\ IsSome(lastStart[th[t].params.name])
        /\ \E n \in NodeNames \ {th[t].params.name} :
              /\ IsSome(lastStart[n])
              /\ lastStart[n] # lastStart[th[t].params.name]

\* C5: node_update(n, H) for a node n that get_agent resolves and that has
\* no stored StartOption sends, in that step, an update command with env = "",
\* args = "" and commit_hash = H instead of returning an error; once the agent
\* has answered, the request returns ok if the command succeeded and the
\* agent's failure otherwise.
C5_Step ==
    \A t \in Threads :
        ( /\ th[t].pc = "run"
          /\ th[t].handler = "node_update"
          /\ get_agent(th[t].params.name) # None
          /\ get_agent_extra(th[t].params.name) = None
          /\ th'[t] # th[t] )
        => /\ th'[t].pc = "wait"
           /\ th'[t].sent =
                << [kind |-> "update", env |-> "", args |-> "", target |-> "",
                    commit_hash |-> th[t].params.commit_hash] >>

C5_Returned ==
    \A t \in Threads :
        ( th[t].handler = "node_update" /\ th[t].pc = "done" /\ th[t].sent # <<>> )
        => /\ IsSome(th[t].reply)
           /\ Unwrap(th[t].reply).ok => th[t].resp = response(<<>>)
           /\ ~Unwrap(th[t].reply).ok => th[t].resp.status = "AgentError"

\* C5: the update without a StartOption is always sent with empty env and
\* args, and its answer alone decides between ok and AgentError.
C5_UpdateWithoutStartOption == []C5_Returned /\ [][C5_Step]_vars

C5_Witness ==
    \E t \in Threads :
        /\ th[t].handler = "node_update"
        /\ th[t].pc = "done"
        /\ th[t].sent # <<>>
        /\ dbExtra[th[t].params.name] = None
        /\ th[t].resp = response(<<>>)

\* C6: a finished node_start, node_stop, node_update or
\* shell_getCodeChainLog whose agent was resolved returns the agent's failure
\* as AgentError when the command failed and ok when it succeeded (for
\* shell_getCodeChainLog, with the text the agent returned); it returns
\* AgentNotFound only when get_agent resolved no agent.
C6_AgentErrorOrOk ==
    \A t \in Threads :
        ( th[t].pc = "done" /\ th[t].handler \in AgentHandlers ) =>
            /\ th[t].agent # None =>
                  /\ IsSome(th[t].reply)
                  /\ ~Unwrap(th[t].reply).ok =>
                        th[t].resp = RPCError("AgentError", Unwrap(th[t].reply).cause)
                  /\ Unwrap(th[t].reply).ok =>
                        th[t].resp =
                            IF th[t].handler = "shell_get_codechain_log"
                                THEN response(Unwrap(th[t].reply).text)
                                ELSE response(<<>>)
            /\ th[t].resp.status = "AgentNotFound" =>
                  th[t].agent = None /\ th[t].sent = <<>>

\* A failed stop beside a log fetch that returned the agent's text.
C6_Witness ==
    \E t, u \in Threads :
        /\ th[t].pc = "done" /\ th[t].handler = "node_stop"
        /\ th[t].resp.status = "AgentError"
        /\ th[u].pc = "done" /\ th[u].handler = "shell_get_codechain_log"
        /\ th[u].resp = response("log-b")


\* The step in which node_get_info runs on thread t.
GetInfoStep(t) ==
    th[t].pc = "run" /\ th[t].handler = "node_get_info" /\ th'[t] # th[t]

\* C7, as claimed: node_getInfo returns AgentNotFound whenever get_agent
\* resolves no agent for the name, whatever the DB holds, and sends no remote
\* command.
C7_Original_Step ==
    \A t \in Threads :
        ( GetInfoStep(t) /\ get_agent(th[t].params.name) = None )
        => /\ th'[t].resp = RPCError("AgentNotFound", "")
           /\ th'[t].sent = <<>>

\* C7, as claimed: no node_get_info step returns anything but AgentNotFound
\* for a name without a live agent.
C7_Original == [][C7_Original_Step]_vars

\* C7, amended: node_getInfo returns AgentNotFound exactly when the DB's
\* get_agent_query_result has no result for the name, whatever get_agent
\* resolves; otherwise it returns the node info built from the DB's query
\* result and extra; it sends no remote command in any case.
C7_Step ==
    \A t \in Threads :
        GetInfoStep(t) =>
            LET name == th[t].params.name
            IN  /\ th'[t].pc = "done"
                /\ th'[t].sent = <<>>
                /\ th'[t].resp =
                      IF get_agent_query_result(name) = None
                          THEN RPCError("AgentNotFound", "")
                          ELSE response([query |-> Unwrap(get_agent_query_result(name)),
                                         extra |-> get_agent_extra(name)])

\* C7, amended: every node_get_info step answers from the DB alone.
C7_GetInfoReadsDB == [][C7_Step]_vars

\* Node info returned for a name without a live agent, and AgentNotFound
\* for a name with one.
C7_Witness ==
    \E t, u \in Threads :
        /\ th[t].pc = "done" /\ th[t].handler = "node_get_info"
        /\ th[t].resp.status = "ok"
        /\ th[t].params.name \notin live
        /\ th[u].pc = "done" /\ th[u].handler = "node_get_info"
        /\ th[u].resp.status = "AgentNotFound"
        /\ th[u].params.name \in live

\* The command a handler sends.
CommandKind(handler) ==
    CASE handler = "node_start" -> "start"
      [] handler = "node_stop" -> "stop"
      [] handler = "node_update" -> "update"
      [] handler = "shell_get_codechain_log" -> "get-log"

\* C8: a request sends at most one remote command: exactly one, of its own
\* kind, once node_start, node_stop, node_update or shell_getCodeChainLog has
\* resolved its agent, also after that command failed; none for a name that
\* did not resolve and none for the other five methods.
C8_NoRetry ==
    \A t \in Threads :
        /\ Len(th[t].sent) <= 1
        /\ th[t].handler \notin AgentHandlers => th[t].sent = <<>>
        /\ ( th[t].handler \in AgentHandlers /\ th[t].pc \in {"wait", "replied", "done"} )
              => /\ Len(th[t].sent) = IF th[t].agent # None THEN 1 ELSE 0
                 /\ \A i \in 1..Len(th[t].sent) :
                       th[t].sent[i].kind = CommandKind(th[t].handler)

\* A stop whose command failed, beside a finished log_get.
C8_Witness ==
    \E t, u \in Threads :
        /\ th[t].pc = "done" /\ th[t].handler = "node_stop"
        /\ th[t].resp.status = "AgentError"
        /\ Len(th[t].sent) = 1
        /\ th[u].pc = "done" /\ th[u].handler = "log_get"
        /\ th[u].sent = <<>>

\* C9: add_routing registers each of the nine catalogue names once and no
\* add_route call is rejected; a request for a registered name is handed to
\* the one handler registered for it, and a request for any other name gets
\* MethodNotFound with no handler run, no command sent and nothing saved.
C9_Routing ==
    /\ ~setupFailed
    /\ DOMAIN routes = { AddRoutingCalls[i][1] : i \in 1..(setupPc - 1) }
    /\ Cardinality(DOMAIN routes) = setupPc - 1
    /\ setupPc > Len(AddRoutingCalls) =>
          /\ DOMAIN routes = Catalogue
          /\ Cardinality(DOMAIN routes) = 9
    /\ \A t \in Threads :
          th[t].pc # "idle" =>
              IF th[t].method \in Catalogue
                  THEN /\ th[t].handler = routes[th[t].method]
                       /\ \E i \in 1..Len(AddRoutingCalls) :
                             AddRoutingCalls[i] = <<th[t].method, th[t].handler>>
                  ELSE /\ th[t].pc = "done"
                       /\ th[t].resp = RPCError("MethodNotFound", "")
                       /\ th[t].handler = ""
                       /\ th[t].sent = <<>>
                       /\ th[t].saves = <<>>

\* An unregistered name refused beside a registered one served.
C9_Witness ==
    \E t, u \in Threads :
        /\ th[t].method \in UnknownMethods
        /\ th[t].resp.status = "MethodNotFound"
        /\ th[u].pc = "done" /\ th[u].method = "node_update"
        /\ th[u].handler = "node_update"


\* The table add_routing builds.
RoutesBuilt ==
    [m \in { AddRoutingCalls[i][1] : i \in 1..Len(AddRoutingCalls) } |->
        AddRoutingCalls[CHOOSE i \in 1..Len(AddRoutingCalls) : AddRoutingCalls[i][1] = m][2]]

\* Once built, the routing table is the one add_routing left.
RoutesFixed == SetupDone => routes = RoutesBuilt

\* The response of the finished request on thread t, unless it is a log_get,
\* is what its parameters, the DB and the agent's answer make it.
Determined(t) ==
    LET r == th[t]
        name == r.params.name
    IN  CASE r.handler = "" -> r.resp = RPCError("MethodNotFound", "")
          [] r.handler = "ping" -> r.resp = response("pong")
          [] r.handler = "log_get_types" -> r.resp = response([types |-> LogTypes])
          [] r.handler = "dashboard_get_network" ->
                r.resp = response(
                    [nodes |-> [i \in 1..Len(db.agents) |-> DashboardNode(db.agents[i])],
                     connections |-> [i \in 1..Len(db.connections) |->
                                         NodeConnection(db.connections[i])]])
          [] r.handler = "node_get_info" ->
                IF get_agent_query_result(name) = None
                    THEN r.resp = RPCError("AgentNotFound", "")
                    ELSE /\ r.resp.status = "ok"
                         /\ Unwrap(r.resp.value).query = [name |-> name]
                         /\ Unwrap(r.resp.value).extra \in
                                {None} \cup { StartOptionOf(q) : q \in StartRequests }
          [] r.handler \in AgentHandlers ->
                IF r.agent = None
                    THEN r.resp = RPCError("AgentNotFound", "")
                    ELSE r.resp =
                           IF ~Unwrap(r.reply).ok
                               THEN RPCError("AgentError", Unwrap(r.reply).cause)
                           ELSE IF r.handler = "shell_get_codechain_log"
                               THEN response(Unwrap(r.reply).text)
                               ELSE response(<<>>)
          [] OTHER -> TRUE

\* The entries a log_get with these parameters returns on a thread that has
\* served no log_get before.
FreshLogs(params) == Collect(Range(1, ItemPerPage(params.item_per_page)), InitialDummyId).logs

\* C10, as claimed: the routing table stays as add_routing built it, and the
\* response of every finished request, log_get included, is what its own
\* parameters and the collaborators make it, whatever its thread served before.
C10_Original ==
    /\ RoutesFixed
    /\ \A t \in Threads :
          th[t].pc = "done" =>
              /\ Determined(t)
              /\ th[t].handler = "log_get" =>
                    th[t].resp = response([logs |-> FreshLogs(th[t].params)])

\* C10, amended: under overlapping requests the routing table stays as
\* add_routing built it, and the response of every finished request other
\* than log_get is what its own parameters and the collaborators make it; a
\* log_get response has the number of entries its itemPerPage gives, but its
\* ids continue the dummy_id counter of the thread that served it, so they
\* depend on the log_get requests that thread served before.
C10_NoLeakExceptLogIds ==
    /\ RoutesFixed
    /\ \A t \in Threads :
          th[t].pc = "done" =>
              /\ Determined(t)
              /\ th[t].handler = "log_get" =>
                    LET logs == Unwrap(th[t].resp.value).logs
                        n == Len(FreshLogs(th[t].params))
                    IN  /\ th[t].resp.status = "ok"
                        /\ Len(logs) = n
                        /\ \A k \in 1..n :
                              logs[k] = [id |-> Format(dummy_id[t] - n + k)]

\* A log_get answered with ids that do not start at 1: its thread served a
\* log_get before.
C10_Witness ==
    \E t \in Threads :
        /\ th[t].pc = "done" /\ th[t].handler = "log_get"
        /\ th[t].resp.status = "ok"
        /\ Unwrap(th[t].resp.value).logs # <<>>
        /\ Unwrap(th[t].resp.value).logs # FreshLogs(th[t].params)


\* A finished log_get on thread t.
LogGetDone(t) == th[t].pc = "done" /\ th[t].handler = "log_get"

\* C11: log_get always returns ok; with itemPerPage = n it returns n - 1
\* entries for n >= 1 and none for n = 0, and with itemPerPage absent it
\* returns what itemPerPage = 100 returns, 99 entries.
C11_LogGetCount ==
    \A t \in Threads :
        LogGetDone(t) =>
            LET ipp == th[t].params.item_per_page
                n == IF ipp = None THEN 100 ELSE Unwrap(ipp)
            IN  /\ th[t].resp.status = "ok"
                /\ Len(Unwrap(th[t].resp.value).logs) = IF n >= 1 THEN n - 1 ELSE 0

\* itemPerPage = 10 answered with 9 entries beside itemPerPage = 0 answered
\* with none.
C11_Witness ==
    \E t, u \in Threads :
        /\ LogGetDone(t) /\ th[t].params.item_per_page = Some(10)
        /\ Len(Unwrap(th[t].resp.value).logs) = 9
        /\ LogGetDone(u) /\ th[u].params.item_per_page = Some(0)
        /\ Unwrap(th[u].resp.value).logs = <<>>


\* C12: dashboard_getNetwork always returns ok with nodes holding one element
\* per agent state of get_agents_state and connections one per connection of
\* get_connections, each in the collaborator's order; both are present and
\* empty when the DB holds none.
C12_NetworkMirrorsDB ==
    \A t \in Threads :
        (th[t].pc = "done" /\ th[t].handler = "dashboard_get_network") =>
            /\ th[t].resp.status = "ok"
            /\ LET r == Unwrap(th[t].resp.value)
               IN  /\ DOMAIN r = {"nodes", "connections"}
                   /\ Len(r.nodes) = Len(db.agents)
                   /\ \A i \in 1..Len(db.agents) :
                          r.nodes[i] = DashboardNode(db.agents[i])
                   /\ Len(r.connections) = Len(db.connections)
                   /\ \A i \in 1..Len(db.connections) :
                          r.connections[i] = NodeConnection(db.connections[i])

\* The network of a DB that lists n2 before n1 was returned.
C12_Witness ==
    \E t \in Threads :
        /\ th[t].pc = "done" /\ th[t].handler = "dashboard_get_network"
        /\ db.agents = <<"n2", "n1">>
        /\ Len(Unwrap(th[t].resp.value).nodes) = 2
        /\ Len(Unwrap(th[t].resp.value).connections) = 1

\* A finished log_get_types holds the fixed list.
C13_Returned ==
    \A t \in Threads :
        (th[t].pc = "done" /\ th[t].handler = "log_get_types") =>
            th[t].resp = [status |-> "ok",
                          value |-> Some([types |-> <<"miner", "tendermint", "engine">>]),
                          cause |-> ""]

\* The step that runs log_get_types on some thread changes that thread's
\* request and nothing else.
C13_Step ==
    \A t \in Threads :
        (Running(t, "log_get_types") /\ th'[t].pc = "done") =>
            /\ \A u \in Threads \ {t} : th'[u] = th[u]
            /\ UNCHANGED << router, collaborators, dbExtra, dummy_id, served, history >>

\* C13: in every reachable state log_getTypes returns ok with the list miner,
\* tendermint, engine, and running it changes no state of the program.
C13_LogTypesFixed == []C13_Returned /\ [][C13_Step]_vars

\* The list was returned in a state where a start option had been saved.
C13_Witness ==
    \E t \in Threads :
        /\ th[t].pc = "done" /\ th[t].handler = "log_get_types"
        /\ th[t].resp.status = "ok"
        /\ \E n \in NodeNames : dbExtra[n] # None


\* The request of thread t is a node_start, node_stop or node_update for n.
Targets(t, n) == th[t].handler \in RaceHandlers /\ th[t].params.name = n

\* The command of thread t is in flight at the agent of n.
InFlight(t, n) == th[t].pc = "wait" /\ th[t].agent = Some(n)

\* The next step of thread t can put its command in flight at the agent of n.
CanSend(t, n) == ENABLED (HandleRace(t) /\ th'[t].pc = "wait" /\ th'[t].agent = Some(n))

\* C14: requests for one node do not exclude each other: while a request for
\* a live node n has not called the agent yet, its call can be the next step
\* whatever another request for n is doing (not yet calling, its command in
\* flight, or answered), so both commands can be in flight together and
\* either can reach the agent first.
C14_NoMutualExclusion ==
    \A t, u \in Threads : \A n \in live :
        ( /\ t # u
          /\ Targets(t, n) /\ th[t].pc \in {"run", "wait", "replied"}
          /\ Targets(u, n) /\ th[u].pc = "run" )
        => CanSend(u, n)

\* A start and a stop command are both in flight at one agent, which got the
\* command of the request dispatched second before that of the first.
C14_Witness ==
    \E t, u \in Threads : \E n \in NodeNames :
        /\ th[t].handler = "node_start" /\ InFlight(t, n)
        /\ th[u].handler = "node_stop" /\ InFlight(u, n)
        /\ ticket[t] < ticket[u]
        /\ inbox[n] = << ticket[u], ticket[t] >>


\* A node_start for n has been dispatched and has not returned.
StartInProgress(n) ==
    \E t \in Threads :
        /\ th[t].handler = "node_start" /\ th[t].params.name = n
        /\ th[t].pc \in {"run", "wait", "replied"}

\* While no node_start for n is in progress, the StartOption stored for n is
\* that of the start command the agent of n accepted last.
C15_Persisted ==
    \A n \in NodeNames :
        ~StartInProgress(n) =>
            dbExtra[n] = IF accepted[n] = None THEN None
                                               ELSE StartOptionOf(Unwrap(accepted[n]))

\* The update command a node_update sends for n has the env and args of the
\* start command the agent of n had accepted last when the request was
\* dispatched.
C15_UpdateStep ==
    \A t \in Threads :
        ( /\ Running(t, "node_update") /\ th'[t].pc = "wait"
          /\ known[t][th[t].params.name] # None )
        => LET command == th'[t].sent[Len(th'[t].sent)]
               req == Unwrap(known[t][th[t].params.name])
           IN  command.env = req.env /\ command.args = req.args

\* C15: under every interleaving of concurrent node_start and node_update
\* requests for one node, the stored StartOption equals the env and args of
\* the last start command the agent accepted whenever no node_start for the
\* node is in progress, and every update command carries the env and args of
\* the latest start command accepted before its node_update was invoked.
C15_StartOptionConsistent == []C15_Persisted /\ [][C15_UpdateStep]_vars


\* A step that changes the stored StartOptions is the return of a node_start
\* whose start command the agent accepted, and it changes the option of that
\* request's node only.
C16_Step ==
    dbExtra' # dbExtra =>
        \E t \in Threads :
            /\ Replied(t, "node_start") /\ Unwrap(th[t].reply).ok
            /\ th'[t].pc = "done"
            /\ \A n \in NodeNames \ {th[t].params.name} : dbExtra'[n] = dbExtra[n]

\* No request of another method has called save_start_option, and what is
\* stored is the env and args of a start request.
C16_NoOtherSave ==
    /\ \A t \in Threads : th[t].handler # "node_start" => th[t].saves = <<>>
    /\ \A n \in NodeNames :
           dbExtra[n] \in {None} \cup { StartOptionOf(req) : req \in StartRequests }

\* C16: node_start is the only operation that writes the stored StartOptions:
\* a step of any of the other eight methods, succeeding or failing, leaves
\* them as they were, and a successful node_update(n, H) stores neither H nor
\* the env and args it sent.
C16_OnlyStartSaves == []C16_NoOtherSave /\ [][C16_Step]_vars

\* A node_update succeeded for a node that has a StartOption stored.
C16_Witness ==
    \E t \in Threads :
        /\ th[t].pc = "done" /\ th[t].handler = "node_update"
        /\ th[t].resp.status = "ok"
        /\ th[t].saves = <<>>
        /\ dbExtra[th[t].params.name] # None


\* Every thread's counter starts at 0.
C17_Initial == \A t \in Threads : dummy_id[t] = 0

\* No step lowers a counter; a log_get on thread t that finds its counter at
\* c returns the ids c + 1, c + 2, .. in that order, leaves the counter at the
\* last of them, and leaves the other threads' counters alone.
C17_Step ==
    /\ \A t \in Threads : dummy_id'[t] >= dummy_id[t]
    /\ \A t \in Threads :
           (Running(t, "log_get") /\ th'[t].pc = "done") =>
               LET logs == Unwrap(th'[t].resp.value).logs
               IN  /\ \A i \in 1..Len(logs) : logs[i].id = Format(dummy_id[t] + i)
                   /\ dummy_id'[t] = dummy_id[t] + Len(logs)
                   /\ \A u \in Threads \ {t} : dummy_id'[u] = dummy_id[u]

\* C17: the ids of the placeholder log entries come from a counter per
\* thread that starts at 0 and is incremented by 1 before each entry is
\* built, so the k-th entry a thread creates has id k: the ids of a response
\* are consecutive and increasing, they continue over the log_get calls of
\* one thread, the counter never goes back, and a log_get on one thread
\* leaves the counter of another alone.
C17_ThreadCounter == C17_Initial /\ [][C17_Step]_vars

\* The second log_get of a thread returned ids that continue those of its
\* first, while the other thread's counter is still 0.
C17_Witness ==
    \E t, u \in Threads :
        /\ LogGetDone(t)
        /\ Len(Unwrap(th[t].resp.value).logs) = 2
        /\ dummy_id[t] = 4
        /\ Unwrap(th[t].resp.value).logs[1].id = <<"3">>
        /\ Unwrap(th[t].resp.value).logs[2].id = <<"4">>
        /\ dummy_id[u] = 0

====
